---------------------------- MODULE Spec2Model ----------------------------
(***************************************************************************)
(* A model of the stdio transport of mcp-cli                               *)
(* (src/src/mcpcli/transport/stdio/stdio_client.py): the session generator *)
(* stdio_client, its two loops stdout_reader and stdin_writer, the line    *)
(* codec used by them and terminate_process.                               *)
(*                                                                         *)
(* Text is modelled character by character: a string is a sequence of      *)
(* one-character strings, so that splitting, stripping and JSON parsing    *)
(* are computed and not assumed.                                           *)
(***************************************************************************)
EXTENDS Integers, Sequences, FiniteSets, TLC

(***************************************************************************)
(* Bounds of the model.                                                    *)
(***************************************************************************)
\* the largest number of lines the child writes to its stdout
MaxLines == 2
\* the largest number of messages the caller sends on the outbound channel
MaxSend == 2
\* the clock stops here
MaxTime == 7
\* the largest number of servers run() is called with
MaxServers == 3

(***************************************************************************)
(* Program constants.                                                      *)
(***************************************************************************)
\* anyio.fail_after(5) in terminate_process
GracefulTimeout == 5
\* anyio.move_on_after(1) around the caller-level close in run()
CloseGrace == 1
\* anyio.create_memory_object_stream(0)
ChannelCapacity == 0

(***************************************************************************)
(* Characters.                                                             *)
(***************************************************************************)
NL == "\n"
QUOTE == "\""
WS == {" "}
Digits == {"0", "1", "2", "3", "4", "5", "6", "7", "8", "9"}

\* str.strip() leaves something: some character is not whitespace
NonBlank(s) == \E i \in 1..Len(s) : s[i] \notin WS

IsPrefix(a, b) == Len(a) <= Len(b) /\ SubSeq(b, 1, Len(a)) = a

(***************************************************************************)
(* str.split("\n"): the pieces between newlines; always at least one       *)
(* piece, the last one being what follows the last newline.                *)
(***************************************************************************)
\* the index of the first newline of s from i on, or 0
NextNL(s, i) ==
    LET at == {j \in i..Len(s) : s[j] = NL} IN
    IF at = {} THEN 0 ELSE CHOOSE j \in at : \A k \in at : j <= k

RECURSIVE SplitFrom(_, _)
SplitFrom(s, i) ==
    LET j == NextNL(s, i) IN
    IF j = 0 THEN <<SubSeq(s, i, Len(s))>>
    ELSE <<SubSeq(s, i, j - 1)>> \o SplitFrom(s, j + 1)

Split(s) == SplitFrom(s, 1)

\* lines.pop() leaves all pieces but the last
AllButLast(ss) == SubSeq(ss, 1, Len(ss) - 1)
Last(ss) == ss[Len(ss)]

(***************************************************************************)
(* json.loads, for texts over the alphabet of the model: whitespace,       *)
(* objects, strings without escapes and non-negative integers.  A parse    *)
(* result is [ok, t, v, m, next]: t the type of the value, v its text      *)
(* (number, string), m its members (object), next the index after it.      *)
(***************************************************************************)
NoParse == [ok |-> FALSE, t |-> "none", v |-> <<>>, m |-> <<>>, next |-> 0]

RECURSIVE SkipWs(_, _)
SkipWs(s, i) == IF i <= Len(s) /\ s[i] \in WS THEN SkipWs(s, i + 1) ELSE i

RECURSIVE StringEnd(_, _)
\* the index of the quote closing a string whose content starts at i, or 0
StringEnd(s, i) ==
    IF i > Len(s) THEN 0
    ELSE IF s[i] = QUOTE THEN i
    ELSE StringEnd(s, i + 1)

ParseString(s, i) ==
    LET e == StringEnd(s, i + 1) IN
    IF e = 0 THEN NoParse
    ELSE [ok |-> TRUE, t |-> "str", v |-> SubSeq(s, i + 1, e - 1),
          m |-> <<>>, next |-> e + 1]

RECURSIVE DigitsEnd(_, _)
DigitsEnd(s, i) ==
    IF i <= Len(s) /\ s[i] \in Digits THEN DigitsEnd(s, i + 1) ELSE i

ParseNumber(s, i) ==
    LET e == IF s[i] = "0" THEN i + 1 ELSE DigitsEnd(s, i) IN
    [ok |-> TRUE, t |-> "num", v |-> SubSeq(s, i, e - 1), m |-> <<>>, next |-> e]

RECURSIVE ParseValue(_, _)
RECURSIVE ParseMembers(_, _, _)

\* the members of an object from a key at i on, after the members acc
ParseMembers(s, i, acc) ==
    IF i > Len(s) \/ s[i] # QUOTE THEN NoParse
    ELSE
      LET k == ParseString(s, i) IN
      IF ~k.ok THEN NoParse
      ELSE
        LET c == SkipWs(s, k.next) IN
        IF c > Len(s) \/ s[c] # ":" THEN NoParse
        ELSE
          LET val == ParseValue(s, SkipWs(s, c + 1)) IN
          IF ~val.ok THEN NoParse
          ELSE
            LET e == SkipWs(s, val.next)
                all == Append(acc, [key |-> k.v, t |-> val.t, v |-> val.v])
            IN
            IF e > Len(s) THEN NoParse
            ELSE IF s[e] = "}"
              THEN [ok |-> TRUE, t |-> "obj", v |-> <<>>, m |-> all, next |-> e + 1]
            ELSE IF s[e] = ","
              THEN ParseMembers(s, SkipWs(s, e + 1), all)
            ELSE NoParse

ParseValue(s, i) ==
    IF i > Len(s) THEN NoParse
    ELSE IF s[i] = QUOTE THEN ParseString(s, i)
    ELSE IF s[i] \in Digits THEN ParseNumber(s, i)
    ELSE IF s[i] = "{" THEN
      LET j == SkipWs(s, i + 1) IN
      IF j <= Len(s) /\ s[j] = "}"
        THEN [ok |-> TRUE, t |-> "obj", v |-> <<>>, m |-> <<>>, next |-> j + 1]
        ELSE ParseMembers(s, j, <<>>)
    ELSE NoParse

\* json.loads(line): one value, whitespace around it and nothing else
json_loads(s) ==
    LET r == ParseValue(s, SkipWs(s, 1)) IN
    IF r.ok /\ SkipWs(s, r.next) = Len(s) + 1 THEN r ELSE NoParse

(***************************************************************************)
(* JSONRPCMessage: the fields jsonrpc (default "2.0"), id and method.  A   *)
(* field is [t, v]: its type ("none" when absent) and its text.            *)
(***************************************************************************)
None == [t |-> "none", v |-> <<>>]
Str(cs) == [t |-> "str", v |-> cs]
Num(cs) == [t |-> "num", v |-> cs]

KeyJsonrpc == <<"j", "s", "o", "n", "r", "p", "c">>
KeyId == <<"i", "d">>
KeyMethod == <<"m", "e", "t", "h", "o", "d">>
Version20 == <<"2", ".", "0">>

RECURSIVE Lookup(_, _)
\* the value a parsed object gives a key: its last member of that key
Lookup(m, key) ==
    IF m = <<>> THEN None
    ELSE IF Last(m).key = key THEN [t |-> Last(m).t, v |-> Last(m).v]
    ELSE Lookup(AllButLast(m), key)

\* JSONRPCMessage.model_validate(data) succeeds
ValidShape(r) ==
    /\ r.ok
    /\ r.t = "obj"
    /\ Lookup(r.m, KeyJsonrpc).t \in {"none", "str"}
    /\ Lookup(r.m, KeyId).t \in {"none", "num", "str"}
    /\ Lookup(r.m, KeyMethod).t \in {"none", "str"}

\* the message JSONRPCMessage.model_validate(data) builds
model_validate(r) ==
    [jsonrpc |-> IF Lookup(r.m, KeyJsonrpc).t = "none"
                   THEN Str(Version20) ELSE Lookup(r.m, KeyJsonrpc),
     id |-> Lookup(r.m, KeyId),
     method |-> Lookup(r.m, KeyMethod)]

\* the text of one field value in JSON
Dump(f) == IF f.t = "str" THEN <<QUOTE>> \o f.v \o <<QUOTE>> ELSE f.v

Member(key, f) == <<QUOTE>> \o key \o <<QUOTE, ":">> \o Dump(f)

\* message.model_dump_json(exclude_none=True)
model_dump_json(msg) ==
    <<"{">> \o Member(KeyJsonrpc, msg.jsonrpc)
      \o (IF msg.id.t = "none" THEN <<>> ELSE <<",">> \o Member(KeyId, msg.id))
      \o (IF msg.method.t = "none" THEN <<>>
          ELSE <<",">> \o Member(KeyMethod, msg.method))
      \o <<"}">>

(***************************************************************************)
(* process_json_line up to its send: whether a line decodes to a message,  *)
(* and the message.  A line that fails json.loads or model_validate is     *)
(* logged and dropped.                                                     *)
(***************************************************************************)
\* a faulty variant: the id of the message is lost
DecodeDroppingId(line) == [model_validate(json_loads(line)) EXCEPT !.id = None]

Decodes(line) == ValidShape(json_loads(line))
Decode(line) == model_validate(json_loads(line))

\* a faulty variant: the message is written without its newline
EncodeLineBare(msg) == model_dump_json(msg)

\* what stdin_writer hands to process.stdin.send for a message
EncodeLine(msg) == model_dump_json(msg) \o <<NL>>

RECURSIVE DecodeAll(_)
\* the messages of a sequence of lines, blank and undecodable ones skipped
DecodeAll(ls) ==
    IF ls = <<>> THEN <<>>
    ELSE (IF NonBlank(Head(ls)) /\ Decodes(Head(ls))
            THEN <<Decode(Head(ls))>> ELSE <<>>) \o DecodeAll(Tail(ls))

(***************************************************************************)
(* The inputs of the model: what the child writes to its stdout, what the  *)
(* caller sends, the server parameters.                                    *)
(***************************************************************************)
LineA == <<"{", QUOTE, "i", "d", QUOTE, ":", "1", "}">>
LineB == <<" ", "{", QUOTE, "i", "d", QUOTE, ":", "2", "}">>
\* not JSON
LineBad == <<"{", QUOTE, "i", "d", QUOTE>>
\* JSON, but no message
LineShape == <<"7">>
LineBlank == <<" ">>
LineSet == {LineA, LineB, LineBad, LineShape, LineBlank}
\* what may follow the last newline of the child's output
TailSet == {<<>>, LineB}

RECURSIVE LineSeqs(_)
\* the sequences of at most n lines
LineSeqs(n) ==
    IF n = 0 THEN {<<>>}
    ELSE LET shorter == LineSeqs(n - 1) IN
         shorter \cup {Append(ls, l) : ls \in shorter, l \in LineSet}

RECURSIVE Terminated(_)
\* the text of a sequence of lines, a newline after each
Terminated(ls) ==
    IF ls = <<>> THEN <<>> ELSE Head(ls) \o <<NL>> \o Terminated(Tail(ls))

\* a malformed line between two valid ones
Sandwich == Terminated(<<LineA, LineBad, LineB>>)

\* every output of at most MaxLines lines and a tail, and the malformed line
\* between two valid ones
AllStreams ==
    {Terminated(ls) \o t : ls \in LineSeqs(MaxLines), t \in TailSet} \cup {Sandwich}
\* the output of the sessions whose whole life is explored: a message, and
\* a message left without its newline
SessionStreams == {<<"{", "}", NL, "{", "}">>}

MsgPing == [jsonrpc |-> Str(Version20), id |-> Num(<<"1">>),
            method |-> Str(<<"p", "i", "n", "g">>)]
MsgNote == [jsonrpc |-> Str(Version20), id |-> None,
            method |-> Str(<<"o", "k">>)]
MsgSet == {MsgPing, MsgNote}

\* StdioServerParameters: the command, and what args is
Servers ==
    {[command |-> <<"s", "r", "v">>, args |-> "list"],
     [command |-> <<>>, args |-> "list"],
     [command |-> <<>>, args |-> "tuple"],
     [command |-> <<"s", "r", "v">>, args |-> "str"],
     [command |-> <<>>, args |-> "str"]}

Finished == {"done", "cancelled", "failed"}

VARIABLES
    server,         \* the parameters stdio_client was called with
    sess,           \* "Created", "Running", "Closing", "Closed"
    open_error,     \* what entering the session raised: "none", "ValueError", "SpawnError"
    gen_pc,         \* where the generator is after its yield
    exc,            \* the exception passing through the generator
    result,         \* how leaving the session ended for the caller
    streams,        \* whether the two memory object streams exist
    in_tx_closed,   \* read_stream_writer is closed
    in_rx_closed,   \* read_stream is closed (by the caller)
    out_tx_closed,  \* write_stream is closed (by the caller)
    out_rx_closed,  \* write_stream_reader is closed
    inbound,        \* messages buffered in the inbound stream
    delivered,      \* messages the caller received from read_stream
    sent,           \* messages the caller sent on write_stream
    rd_pc,          \* stdout_reader: "none", "read", "send", or how it finished
    buffer,         \* stdout_reader's partial line
    lines,          \* the lines stdout_reader has still to process, the current one first
    rd_last,        \* stdout_reader is past the end of the stream
    processed,      \* the lines process_json_line was called with
    stream,         \* all the child writes to its stdout
    consumed,       \* how much of it stdout_reader has read
    wr_pc,          \* stdin_writer: "none", "recv", "write", or how it finished
    wr_msg,         \* the message stdin_writer is writing
    stdin_data,     \* the text written to the child's stdin
    child,          \* "none", "running", "exited"
    ignores_term,   \* the child ignores the termination request
    ignores_eof,    \* the child does not exit when its stdin ends
    stdin_closed,   \* process.stdin is closed
    stdout_closed,  \* process.stdout is closed
    term_sent,      \* calls of process.terminate()
    kill_sent,      \* calls of process.kill()
    reaped,         \* a process.wait() has returned
    tg_cancelled,   \* the task group's cancel scope is cancelled
    again,          \* how leaving the session a second time ended: "none", "returned"
    scoped,         \* the caller leaves the session inside move_on_after(CloseGrace)
    scope_cancelled,\* that scope's deadline has passed
    now,            \* the clock, started when the session is left
    term_deadline,  \* the deadline of fail_after(GracefulTimeout)
    end_seen,       \* the caller's receive found the end of the inbound stream
    term_error,     \* the call of terminate_process whose error was logged, or "none"
    run_pc,         \* run(): "none", "loop", "init", "cleanup", "end"
    run_plan,       \* run(): for each server name, how its iteration will go
    run_sessions,   \* run(): the state of each session in context_managers
    run_k,          \* run(): the context manager the cleanup has come to
    run_result      \* run(): "none", "returned", "raised"

genVars == <<sess, open_error, gen_pc, exc, result>>
chanVars == <<streams, in_tx_closed, in_rx_closed, out_tx_closed, out_rx_closed>>
callerVars == <<inbound, delivered, sent>>
readerVars == <<rd_pc, buffer, lines, rd_last, processed, consumed>>
writerVars == <<wr_pc, wr_msg, stdin_data>>
childVars == <<child, stdin_closed, stdout_closed, term_sent, kill_sent, reaped>>
fixedVars == <<server, stream, ignores_term, ignores_eof>>
runVars == <<run_pc, run_plan, run_sessions, run_k, run_result>>
moreVars == <<end_seen, term_error, runVars>>
restVars == <<fixedVars, again, moreVars>>
scopeVars == <<tg_cancelled, scoped, scope_cancelled>>
timeVars == <<now, term_deadline>>

vars == <<genVars, chanVars, callerVars, readerVars, writerVars, childVars,
          restVars, scopeVars, timeVars>>

InitWith(S) ==
    /\ server \in Servers
    /\ stream \in S
    /\ ignores_term \in BOOLEAN
    /\ ignores_eof \in BOOLEAN
    /\ again = "none"
    /\ sess = "Created" /\ open_error = "none" /\ gen_pc = "start"
    /\ exc = "none" /\ result = "none"
    /\ streams = FALSE
    /\ in_tx_closed = FALSE /\ in_rx_closed = FALSE
    /\ out_tx_closed = FALSE /\ out_rx_closed = FALSE
    /\ inbound = <<>> /\ delivered = <<>> /\ sent = <<>>
    /\ rd_pc = "none" /\ buffer = <<>> /\ lines = <<>> /\ rd_last = FALSE
    /\ processed = <<>> /\ consumed = 0
    /\ wr_pc = "none" /\ wr_msg = MsgPing /\ stdin_data = <<>>
    /\ child = "none" /\ stdin_closed = FALSE /\ stdout_closed = FALSE
    /\ term_sent = 0 /\ kill_sent = 0 /\ reaped = FALSE
    /\ term_error = "none"
    /\ tg_cancelled = FALSE /\ scoped = FALSE /\ scope_cancelled = FALSE
    /\ now = 0 /\ term_deadline = 0
    /\ end_seen = FALSE
    /\ run_pc = "none" /\ run_plan = <<>> /\ run_sessions = <<>>
    /\ run_k = 0 /\ run_result = "none"

Init == InitWith(SessionStreams)

(***************************************************************************)
(* stdio_client up to its yield: the checks of the parameters, the two     *)
(* streams, the child, the task group and its two tasks.                   *)
(***************************************************************************)
\* a faulty variant: the command is not looked at
CommandNeverMissing(srv) == FALSE

\* not server.command
CommandMissing(srv) == srv.command = <<>>
\* not isinstance(server.args, (list, tuple))
ArgsInvalid(srv) == srv.args \notin {"list", "tuple"}

OpenInvalid ==
    /\ sess = "Created"
    /\ CommandMissing(server) \/ ArgsInvalid(server)
    /\ sess' = "Closed"
    /\ open_error' = "ValueError"
    /\ UNCHANGED <<gen_pc, exc, result, chanVars, callerVars, readerVars,
                   writerVars, childVars, restVars, scopeVars, timeVars>>

\* anyio.open_process raises: the streams exist and are left as they are
OpenSpawnFails ==
    /\ sess = "Created"
    /\ ~CommandMissing(server) /\ ~ArgsInvalid(server)
    /\ streams' = TRUE
    /\ sess' = "Closed"
    /\ open_error' = "SpawnError"
    /\ UNCHANGED <<gen_pc, exc, result, in_tx_closed, in_rx_closed, out_tx_closed,
                   out_rx_closed, callerVars, readerVars, writerVars, childVars,
                   restVars, scopeVars, timeVars>>

Open ==
    /\ sess = "Created"
    /\ ~CommandMissing(server) /\ ~ArgsInvalid(server)
    /\ streams' = TRUE
    /\ child' = "running"
    /\ rd_pc' = "read"
    /\ wr_pc' = "recv"
    /\ gen_pc' = "yield"
    /\ sess' = "Running"
    /\ UNCHANGED <<open_error, exc, result, in_tx_closed, in_rx_closed,
                   out_tx_closed, out_rx_closed, callerVars, buffer, lines, rd_last,
                   processed, consumed, wr_msg, stdin_data, stdin_closed,
                   stdout_closed, term_sent, kill_sent, reaped, restVars, scopeVars,
                   timeVars>>

(***************************************************************************)
(* stdout_reader and process_json_line.                                    *)
(***************************************************************************)
\* a faulty variant: the last complete line is carried over too
CarryTerminated(pieces) ==
    IF Len(pieces) > 1
      THEN pieces[Len(pieces) - 1] \o <<NL>> \o Last(pieces)
      ELSE Last(pieces)

\* a faulty variant: what follows the last newline is lost
CarryDropped(pieces) == <<>>

\* buffer = lines.pop(): what follows the last newline is carried over
Carry(pieces) == Last(pieces)

\* a faulty variant: a stream that takes every message at once
SendNeverBlocks(inb) == FALSE

\* writer.send(message) has to wait: no room in the stream
SendBlocks(inb) == Len(inb) >= ChannelCapacity

RECURSIVE ForwardStopping(_, _, _)
\* a faulty variant: a line that does not decode ends the loop over the lines
ForwardStopping(ls, proc, inb) ==
    IF ls = <<>>
      THEN [lines |-> <<>>, processed |-> proc, inbound |-> inb, blocked |-> FALSE]
    ELSE IF ~NonBlank(Head(ls)) THEN ForwardStopping(Tail(ls), proc, inb)
    ELSE IF ~Decodes(Head(ls))
      THEN [lines |-> <<>>, processed |-> Append(proc, Head(ls)), inbound |-> inb,
            blocked |-> FALSE]
    ELSE IF in_rx_closed
      THEN ForwardStopping(Tail(ls), Append(proc, Head(ls)), inb)
    ELSE IF Len(inb) < ChannelCapacity
      THEN ForwardStopping(Tail(ls), Append(proc, Head(ls)),
                           Append(inb, Decode(Head(ls))))
    ELSE [lines |-> ls, processed |-> Append(proc, Head(ls)), inbound |-> inb,
          blocked |-> TRUE]

RECURSIVE Forward(_, _, _)
(***************************************************************************)
(* The loop over the lines of a chunk, up to the send that has to wait:    *)
(* blank lines are skipped; process_json_line logs and drops a line that   *)
(* does not decode, and also a message whose send raises because the       *)
(* caller has closed read_stream.  Gives the lines left (the one being     *)
(* sent first), the lines processed and the stream's buffer.               *)
(***************************************************************************)
Forward(ls, proc, inb) ==
    IF ls = <<>>
      THEN [lines |-> <<>>, processed |-> proc, inbound |-> inb, blocked |-> FALSE]
    ELSE IF ~NonBlank(Head(ls)) THEN Forward(Tail(ls), proc, inb)
    ELSE IF ~Decodes(Head(ls)) \/ in_rx_closed
      THEN Forward(Tail(ls), Append(proc, Head(ls)), inb)
    ELSE IF ~SendBlocks(inb)
      THEN Forward(Tail(ls), Append(proc, Head(ls)), Append(inb, Decode(Head(ls))))
    ELSE [lines |-> ls, processed |-> Append(proc, Head(ls)), inbound |-> inb,
          blocked |-> TRUE]

\* a faulty variant: read_stream_writer is left open at the end
ReaderGoLeavingOpen(ls, proc, inb, last) ==
    LET r == Forward(ls, proc, inb) IN
    /\ lines' = r.lines
    /\ processed' = r.processed
    /\ inbound' = r.inbound
    /\ rd_last' = last
    /\ rd_pc' = IF r.blocked THEN "send" ELSE IF last THEN "done" ELSE "read"
    /\ in_tx_closed' = in_tx_closed

\* stdout_reader goes on with the lines ls; last: the stream has ended
ReaderGo(ls, proc, inb, last) ==
    LET r == Forward(ls, proc, inb) IN
    /\ lines' = r.lines
    /\ processed' = r.processed
    /\ inbound' = r.inbound
    /\ rd_last' = last
    /\ rd_pc' = IF r.blocked THEN "send" ELSE IF last THEN "done" ELSE "read"
    /\ in_tx_closed' = (~r.blocked /\ last)

\* one chunk of n characters arrives from TextReceiveStream(process.stdout)
ReaderRead(n) ==
    /\ rd_pc = "read"
    /\ ~tg_cancelled
    /\ consumed + n <= Len(stream)
    /\ LET pieces == Split(buffer \o SubSeq(stream, consumed + 1, consumed + n)) IN
       /\ buffer' = Carry(pieces)
       /\ ReaderGo(AllButLast(pieces), processed, inbound, FALSE)
    /\ consumed' = consumed + n
    /\ UNCHANGED <<genVars, streams, in_rx_closed, out_tx_closed, out_rx_closed,
                   delivered, sent, writerVars, childVars, restVars, scopeVars,
                   timeVars>>

\* the stream ends: the child has exited and all is read, or process.stdout
\* was closed and reports the end of the stream; a non-blank rest is processed
ReaderEnd ==
    /\ rd_pc = "read"
    /\ ~tg_cancelled
    /\ \/ child = "exited" /\ consumed = Len(stream)
       \/ stdout_closed
    /\ ReaderGo(IF NonBlank(buffer) THEN <<buffer>> ELSE <<>>, processed, inbound, TRUE)
    /\ UNCHANGED <<genVars, streams, in_rx_closed, out_tx_closed, out_rx_closed,
                   delivered, sent, buffer, consumed, writerVars, childVars,
                   restVars, scopeVars, timeVars>>

\* process.stdout was closed and the read raises ClosedResourceError: the
\* loop ends without a word, read_stream_writer is closed on the way out
ReaderClosed ==
    /\ rd_pc = "read"
    /\ ~tg_cancelled
    /\ stdout_closed
    /\ rd_pc' = "done"
    /\ in_tx_closed' = TRUE
    /\ UNCHANGED <<genVars, streams, in_rx_closed, out_tx_closed, out_rx_closed,
                   callerVars, buffer, lines, rd_last, processed, consumed,
                   writerVars, childVars, restVars, scopeVars, timeVars>>

\* any other error of the read: logged and raised into the task group
ReaderFails ==
    /\ rd_pc = "read"
    /\ ~tg_cancelled
    /\ sess = "Running"
    /\ rd_pc' = "failed"
    /\ in_tx_closed' = TRUE
    /\ tg_cancelled' = TRUE
    /\ UNCHANGED <<genVars, streams, in_rx_closed, out_tx_closed, out_rx_closed,
                   callerVars, buffer, lines, rd_last, processed, consumed,
                   writerVars, childVars, restVars, scoped, scope_cancelled,
                   timeVars>>

\* the waiting send raises: the caller has closed read_stream; the message
\* is logged and dropped by process_json_line and the loop goes on
ReaderSendFails ==
    /\ rd_pc = "send"
    /\ ~tg_cancelled
    /\ in_rx_closed
    /\ ReaderGo(Tail(lines), processed, inbound, rd_last)
    /\ UNCHANGED <<genVars, streams, in_rx_closed, out_tx_closed, out_rx_closed,
                   delivered, sent, buffer, consumed, writerVars, childVars,
                   restVars, scopeVars, timeVars>>

\* the task group's scope is cancelled: the task ends at its await
ReaderCancelled ==
    /\ rd_pc \in {"read", "send"}
    /\ tg_cancelled
    /\ rd_pc' = "cancelled"
    /\ in_tx_closed' = TRUE
    /\ UNCHANGED <<genVars, streams, in_rx_closed, out_tx_closed, out_rx_closed,
                   callerVars, buffer, lines, rd_last, processed, consumed,
                   writerVars, childVars, restVars, scopeVars, timeVars>>

(***************************************************************************)
(* stdin_writer.                                                           *)
(***************************************************************************)
\* process.stdin.send((json_str + "\n").encode()) succeeds
WriterWrite ==
    /\ wr_pc = "write"
    /\ ~tg_cancelled
    /\ ~stdin_closed /\ child = "running"
    /\ stdin_data' = stdin_data \o EncodeLine(wr_msg)
    /\ wr_pc' = "recv"
    /\ UNCHANGED <<genVars, chanVars, callerVars, readerVars, wr_msg, childVars,
                   restVars, scopeVars, timeVars>>

\* a faulty variant: the failed write ends the task without cancelling the
\* task group
WriterWriteFailsAlone ==
    /\ wr_pc = "write"
    /\ ~tg_cancelled
    /\ stdin_closed \/ child = "exited"
    /\ wr_pc' = "failed"
    /\ out_rx_closed' = TRUE
    /\ UNCHANGED <<genVars, streams, in_tx_closed, in_rx_closed, out_tx_closed,
                   callerVars, readerVars, wr_msg, stdin_data, childVars, restVars,
                   scopeVars, timeVars>>

\* the write fails (the pipe is closed or the child is gone): logged and
\* raised into the task group, write_stream_reader closed on the way out
WriterWriteFails ==
    /\ wr_pc = "write"
    /\ ~tg_cancelled
    /\ stdin_closed \/ child = "exited"
    /\ wr_pc' = "failed"
    /\ out_rx_closed' = TRUE
    /\ tg_cancelled' = TRUE
    /\ UNCHANGED <<genVars, streams, in_tx_closed, in_rx_closed, out_tx_closed,
                   callerVars, readerVars, wr_msg, stdin_data, childVars, restVars,
                   scoped, scope_cancelled, timeVars>>

\* the outbound stream is exhausted: write_stream was closed by the caller
WriterEnd ==
    /\ wr_pc = "recv"
    /\ ~tg_cancelled
    /\ out_tx_closed
    /\ wr_pc' = "done"
    /\ out_rx_closed' = TRUE
    /\ UNCHANGED <<genVars, streams, in_tx_closed, in_rx_closed, out_tx_closed,
                   callerVars, readerVars, wr_msg, stdin_data, childVars, restVars,
                   scopeVars, timeVars>>

\* the task group's scope is cancelled: the task ends at its await
WriterCancelled ==
    /\ wr_pc \in {"recv", "write"}
    /\ tg_cancelled
    /\ wr_pc' = "cancelled"
    /\ out_rx_closed' = TRUE
    /\ UNCHANGED <<genVars, streams, in_tx_closed, in_rx_closed, out_tx_closed,
                   callerVars, readerVars, wr_msg, stdin_data, childVars, restVars,
                   scopeVars, timeVars>>

(***************************************************************************)
(* The caller, inside the session.                                         *)
(***************************************************************************)
\* a faulty variant: the newest message comes first
ReceivedFirst(q, msg) == <<msg>> \o q

\* what the caller has received, after one more message
Received(q, msg) == Append(q, msg)

\* write_stream.send(msg): handed to stdin_writer waiting in its async for
CallerSend(msg) ==
    /\ sess = "Running"
    /\ ~out_tx_closed
    /\ Len(sent) < MaxSend
    /\ wr_pc = "recv" /\ ~tg_cancelled
    /\ sent' = Append(sent, msg)
    /\ wr_msg' = msg
    /\ wr_pc' = "write"
    /\ UNCHANGED <<genVars, chanVars, inbound, delivered, readerVars, stdin_data,
                   childVars, restVars, scopeVars, timeVars>>

\* read_stream.receive(): a buffered message, or the one stdout_reader is
\* waiting to send, whose send then completes
CallerReceive ==
    /\ sess = "Running"
    /\ ~in_rx_closed
    /\ IF inbound # <<>>
         THEN /\ delivered' = Received(delivered, Head(inbound))
              /\ IF rd_pc = "send" /\ ~tg_cancelled
                   THEN ReaderGo(Tail(lines), processed,
                                 Append(Tail(inbound), Decode(Head(lines))), rd_last)
                   ELSE /\ inbound' = Tail(inbound)
                        /\ UNCHANGED <<rd_pc, lines, rd_last, processed, in_tx_closed>>
         ELSE /\ rd_pc = "send" /\ ~tg_cancelled
              /\ delivered' = Received(delivered, Decode(Head(lines)))
              /\ ReaderGo(Tail(lines), processed, inbound, rd_last)
    /\ UNCHANGED <<genVars, streams, in_rx_closed, out_tx_closed, out_rx_closed,
                   sent, buffer, consumed, writerVars, childVars, restVars,
                   scopeVars, timeVars>>

\* read_stream.receive() raises EndOfStream: nothing is waiting to be
\* received and read_stream_writer is closed
CallerReceiveEnd ==
    /\ sess = "Running"
    /\ ~in_rx_closed
    /\ ~end_seen
    /\ inbound = <<>>
    /\ in_tx_closed
    /\ end_seen' = TRUE
    /\ UNCHANGED <<genVars, chanVars, callerVars, readerVars, writerVars,
                   childVars, fixedVars, again, term_error, runVars, scopeVars,
                   timeVars>>

\* the caller closes its end of the inbound stream
CallerCloseInbound ==
    /\ sess = "Running"
    /\ ~in_rx_closed
    /\ in_rx_closed' = TRUE
    /\ UNCHANGED <<genVars, streams, in_tx_closed, out_tx_closed, out_rx_closed,
                   callerVars, readerVars, writerVars, childVars, restVars,
                   scopeVars, timeVars>>

\* the caller closes its end of the outbound stream
CallerCloseOutbound ==
    /\ sess = "Running"
    /\ ~out_tx_closed
    /\ out_tx_closed' = TRUE
    /\ UNCHANGED <<genVars, streams, in_tx_closed, in_rx_closed, out_rx_closed,
                   callerVars, readerVars, writerVars, childVars, restVars,
                   scopeVars, timeVars>>

(***************************************************************************)
(* Leaving the session: the generator resumes at its yield and leaves      *)
(* "async with tg, process".  The process is left first: its pipes are     *)
(* closed and its exit is awaited.                                         *)
(***************************************************************************)
\* the caller leaves the session: normally ("none"), with its own exception
\* ("error"), or cancelled by the task group after a task failed
\* ("cancelled"); sc: inside move_on_after(CloseGrace)
CallerClose(how, sc) ==
    /\ sess = "Running"
    /\ how = "cancelled" => tg_cancelled
    /\ sess' = "Closing"
    /\ gen_pc' = "process_exit"
    /\ exc' = how
    /\ scoped' = sc
    /\ stdin_closed' = TRUE
    /\ stdout_closed' = TRUE
    /\ UNCHANGED <<open_error, result, chanVars, callerVars, readerVars, writerVars,
                   child, term_sent, kill_sent, reaped, restVars, tg_cancelled,
                   scope_cancelled, timeVars>>

\* process.kill() was called and did not raise
Killed == kill_sent > 0 /\ term_error # "kill"

\* process.terminate() was called and did not raise
TermRequested == term_sent > 0 /\ term_error # "terminate"

\* the child obeys: a kill, a termination request, the end of its stdin
ChildObeys ==
    /\ child = "running"
    /\ \/ Killed
       \/ TermRequested /\ ~ignores_term
       \/ stdin_closed /\ ~ignores_eof
    /\ child' = "exited"
    /\ UNCHANGED <<genVars, chanVars, callerVars, readerVars, writerVars,
                   stdin_closed, stdout_closed, term_sent, kill_sent, reaped,
                   restVars, scopeVars, timeVars>>

\* the child exits by itself while the session runs
ChildExits ==
    /\ child = "running"
    /\ sess = "Running"
    /\ child' = "exited"
    /\ UNCHANGED <<genVars, chanVars, callerVars, readerVars, writerVars,
                   stdin_closed, stdout_closed, term_sent, kill_sent, reaped,
                   restVars, scopeVars, timeVars>>

(***************************************************************************)
(* The rest of the generator.                                              *)
(***************************************************************************)
\* how leaving the session ends for the caller, for the exception e
Outcome(e) == IF e = "none" THEN "returned" ELSE IF e = "error" THEN "raised" ELSE e

\* the generator ends, e passing to the caller
Finish(e) ==
    /\ gen_pc' = "end"
    /\ sess' = "Closed"
    /\ exc' = e
    /\ result' = Outcome(e)

\* process.returncode is None
StillRunning == child = "running"

\* a faulty variant: the finally does nothing to the process
terminate_process_skipped(e) ==
    /\ Finish(e)
    /\ UNCHANGED <<term_sent, term_deadline>>

(***************************************************************************)
(* terminate_process up to its first await, reached in the finally with e  *)
(* passing through: process.terminate() if the process is still running,   *)
(* then the wait under fail_after(GracefulTimeout).  Inside a cancelled    *)
(* move_on_after scope the wait raises CancelledError at once, which no    *)
(* except clause of terminate_process catches.                             *)
(***************************************************************************)
terminate_process(e) ==
    IF StillRunning
      THEN /\ term_sent' = term_sent + 1
           /\ IF scope_cancelled
                THEN Finish("cancelled") /\ UNCHANGED term_deadline
                ELSE /\ gen_pc' = "terminate"
                     /\ term_deadline' = now + GracefulTimeout
                     /\ exc' = e
                     /\ UNCHANGED <<sess, result>>
      ELSE /\ Finish(e)
           /\ UNCHANGED <<term_sent, term_deadline>>

\* Process.__aexit__: the wait for the child's exit returns
GenProcessExited ==
    /\ gen_pc = "process_exit"
    /\ child = "exited"
    /\ gen_pc' = "tg_exit"
    /\ reaped' = TRUE
    /\ tg_cancelled' = (tg_cancelled \/ exc # "none")
    /\ UNCHANGED <<sess, open_error, exc, result, chanVars, callerVars, readerVars,
                   writerVars, child, stdin_closed, stdout_closed, term_sent,
                   kill_sent, restVars, scoped, scope_cancelled, timeVars>>

\* Process.__aexit__: the wait for the child's exit is cancelled, by the
\* task group's scope or by the caller's.  Depending on the anyio version
\* the process is then killed and waited for, or left as it is.
GenProcessCancelled(kills) ==
    /\ gen_pc = "process_exit"
    /\ child = "running"
    /\ tg_cancelled \/ scope_cancelled
    /\ exc' = "cancelled"
    /\ IF kills
         THEN /\ kill_sent' = kill_sent + 1
              /\ gen_pc' = "kill_wait"
              /\ UNCHANGED tg_cancelled
         ELSE /\ gen_pc' = "tg_exit"
              /\ tg_cancelled' = TRUE
              /\ UNCHANGED kill_sent
    /\ UNCHANGED <<sess, open_error, result, chanVars, callerVars, readerVars,
                   writerVars, child, stdin_closed, stdout_closed, term_sent,
                   reaped, restVars, scoped, scope_cancelled, timeVars>>

\* Process.aclose: the shielded wait after its kill returns
GenKillWaited ==
    /\ gen_pc = "kill_wait"
    /\ child = "exited"
    /\ gen_pc' = "tg_exit"
    /\ reaped' = TRUE
    /\ tg_cancelled' = TRUE
    /\ UNCHANGED <<sess, open_error, exc, result, chanVars, callerVars, readerVars,
                   writerVars, child, stdin_closed, stdout_closed, term_sent,
                   kill_sent, restVars, scoped, scope_cancelled, timeVars>>

\* the task group, waiting for its tasks, is cancelled from outside and
\* cancels them
GenTgCancel ==
    /\ gen_pc = "tg_exit"
    /\ scope_cancelled /\ ~tg_cancelled
    /\ tg_cancelled' = TRUE
    /\ exc' = "cancelled"
    /\ UNCHANGED <<sess, open_error, gen_pc, result, chanVars, callerVars,
                   readerVars, writerVars, childVars, restVars, scoped,
                   scope_cancelled, timeVars>>

\* what leaves the task group: a task's error, else what passed through it
GroupError == IF "failed" \in {rd_pc, wr_pc} THEN "error" ELSE exc

\* both tasks have ended: the task group is left, then (without an
\* exception) process.wait() returns the exit code, then the finally runs
GenTgExited ==
    /\ gen_pc = "tg_exit"
    /\ rd_pc \in Finished /\ wr_pc \in Finished
    /\ terminate_process(GroupError)
    /\ UNCHANGED <<open_error, chanVars, callerVars, readerVars, writerVars, child,
                   stdin_closed, stdout_closed, kill_sent, reaped, restVars,
                   scopeVars, now>>

\* terminate_process: process.wait() returns within the bound
GenTerminateExited ==
    /\ gen_pc = "terminate"
    /\ child = "exited"
    /\ Finish(exc)
    /\ reaped' = TRUE
    /\ UNCHANGED <<open_error, chanVars, callerVars, readerVars, writerVars, child,
                   stdin_closed, stdout_closed, term_sent, kill_sent, restVars,
                   scopeVars, timeVars>>

\* a faulty variant: the kill does not wait for the bound to expire
GenTerminateKillsAtOnce ==
    /\ gen_pc = "terminate"
    /\ child = "running"
    /\ kill_sent' = kill_sent + 1
    /\ Finish(exc)
    /\ UNCHANGED <<open_error, chanVars, callerVars, readerVars, writerVars, child,
                   stdin_closed, stdout_closed, term_sent, reaped, restVars,
                   scopeVars, timeVars>>

\* terminate_process: fail_after raises TimeoutError; process.kill()
GenTerminateTimeout ==
    /\ gen_pc = "terminate"
    /\ child = "running"
    /\ now >= term_deadline
    /\ kill_sent' = kill_sent + 1
    /\ Finish(exc)
    /\ UNCHANGED <<open_error, chanVars, callerVars, readerVars, writerVars, child,
                   stdin_closed, stdout_closed, term_sent, reaped, restVars,
                   scopeVars, timeVars>>

\* terminate_process: its wait is cancelled by the caller's scope
GenTerminateCancelled ==
    /\ gen_pc = "terminate"
    /\ child = "running"
    /\ scope_cancelled
    /\ Finish("cancelled")
    /\ UNCHANGED <<open_error, chanVars, callerVars, readerVars, writerVars,
                   childVars, restVars, scopeVars, timeVars>>

\* a faulty variant: the error of terminate_process replaces what was
\* passing through the finally
Propagated(e) == "error"

\* what leaves terminate_process after an error of its own: the error is
\* logged by the except clause, and what was passing through goes on
Logged(e) == e

\* terminate_process: process.terminate() raises
GenTerminateRequestFails ==
    /\ gen_pc = "tg_exit"
    /\ rd_pc \in Finished /\ wr_pc \in Finished
    /\ StillRunning
    /\ term_sent' = term_sent + 1
    /\ term_error' = "terminate"
    /\ Finish(Logged(GroupError))
    /\ UNCHANGED <<open_error, chanVars, callerVars, readerVars, writerVars, child,
                   stdin_closed, stdout_closed, kill_sent, reaped, fixedVars, again,
                   end_seen, runVars, scopeVars, timeVars>>

\* terminate_process: process.wait() raises an error of its own
GenTerminateWaitFails ==
    /\ gen_pc = "terminate"
    /\ term_error' = "wait"
    /\ Finish(Logged(exc))
    /\ UNCHANGED <<open_error, chanVars, callerVars, readerVars, writerVars,
                   childVars, fixedVars, again, end_seen, runVars, scopeVars,
                   timeVars>>

\* terminate_process: fail_after raises TimeoutError and process.kill() raises
GenTerminateKillFails ==
    /\ gen_pc = "terminate"
    /\ child = "running"
    /\ now >= term_deadline
    /\ kill_sent' = kill_sent + 1
    /\ term_error' = "kill"
    /\ Finish(Logged(exc))
    /\ UNCHANGED <<open_error, chanVars, callerVars, readerVars, writerVars, child,
                   stdin_closed, stdout_closed, term_sent, reaped, fixedVars, again,
                   end_seen, runVars, scopeVars, timeVars>>

\* the deadline of the caller's move_on_after(CloseGrace) passes
ScopeTimeout ==
    /\ sess = "Closing"
    /\ scoped /\ ~scope_cancelled
    /\ now >= CloseGrace
    /\ scope_cancelled' = TRUE
    /\ UNCHANGED <<genVars, chanVars, callerVars, readerVars, writerVars,
                   childVars, restVars, tg_cancelled, scoped, timeVars>>

\* a faulty variant: leaving the session again runs the finally again
CloseAgainTerminates ==
    /\ sess = "Closed"
    /\ gen_pc = "end"
    /\ again = "none"
    /\ again' = "returned"
    /\ term_sent' = term_sent + 1
    /\ UNCHANGED <<genVars, chanVars, callerVars, readerVars, writerVars,
                   child, stdin_closed, stdout_closed, kill_sent, reaped,
                   fixedVars, moreVars, scopeVars, timeVars>>

\* the session is left a second time: the generator has ended, nothing of
\* it runs again, and the call returns
CloseAgain ==
    /\ sess = "Closed"
    /\ gen_pc = "end"
    /\ again = "none"
    /\ again' = "returned"
    /\ UNCHANGED <<genVars, chanVars, callerVars, readerVars, writerVars,
                   childVars, fixedVars, moreVars, scopeVars, timeVars>>

(***************************************************************************)
(* Time passes, one unit at a time, while the session is being left and    *)
(* nothing in it can run: the event loop runs what is ready first, and a   *)
(* killed child is gone before the clock moves.                            *)
(***************************************************************************)
Ready ==
    \/ /\ rd_pc = "read"
       /\ \/ tg_cancelled
          \/ consumed < Len(stream)
          \/ child = "exited"
          \/ stdout_closed
    \/ rd_pc = "send" /\ (tg_cancelled \/ in_rx_closed)
    \/ wr_pc = "write"
    \/ wr_pc = "recv" /\ (tg_cancelled \/ out_tx_closed)
    \/ gen_pc = "process_exit" /\ (child = "exited" \/ tg_cancelled \/ scope_cancelled)
    \/ gen_pc = "kill_wait" /\ child = "exited"
    \/ /\ gen_pc = "tg_exit"
       /\ \/ scope_cancelled /\ ~tg_cancelled
          \/ rd_pc \in Finished /\ wr_pc \in Finished
    \/ /\ gen_pc = "terminate"
       /\ child = "exited" \/ now >= term_deadline \/ scope_cancelled
    \/ scoped /\ ~scope_cancelled /\ now >= CloseGrace
    \/ child = "running" /\ Killed

Tick ==
    /\ sess = "Closing"
    /\ now < MaxTime
    /\ ~Ready
    /\ now' = now + 1
    /\ UNCHANGED <<genVars, chanVars, callerVars, readerVars, writerVars,
                   childVars, restVars, scopeVars, term_deadline>>

Next ==
    \/ OpenInvalid \/ OpenSpawnFails \/ Open
    \/ \E n \in 1..Len(stream) : ReaderRead(n)
    \/ ReaderEnd \/ ReaderClosed \/ ReaderFails \/ ReaderSendFails
    \/ ReaderCancelled
    \/ WriterWrite \/ WriterWriteFails \/ WriterEnd \/ WriterCancelled
    \/ \E msg \in MsgSet : CallerSend(msg)
    \/ CallerReceive \/ CallerCloseInbound \/ CallerCloseOutbound
    \/ \E how \in {"none", "error", "cancelled"}, sc \in BOOLEAN : CallerClose(how, sc)
    \/ ChildObeys \/ ChildExits
    \/ GenProcessExited \/ (\E k \in BOOLEAN : GenProcessCancelled(k))
    \/ GenKillWaited \/ GenTgCancel \/ GenTgExited
    \/ GenTerminateExited \/ GenTerminateTimeout \/ GenTerminateCancelled
    \/ GenTerminateRequestFails \/ GenTerminateWaitFails \/ GenTerminateKillFails
    \/ ScopeTimeout
    \/ CloseAgain
    \/ Tick

Spec == Init /\ [][Next]_vars

(***************************************************************************)
(* What the scheduling gives: the event loop runs a task that is ready     *)
(* (a cancelled task ends, the generator takes its next step), a caller    *)
(* inside the cancelled task group is cancelled at its next await, time    *)
(* passes, and a child that was killed, or that obeys what it was sent,    *)
(* exits.  Nothing is assumed of what the caller does by itself, of        *)
(* failures, or of a child exiting unasked.                                *)
(***************************************************************************)
Fairness ==
    /\ WF_vars(ReaderCancelled) /\ WF_vars(WriterCancelled)
    /\ WF_vars(\E sc \in BOOLEAN : CallerClose("cancelled", sc))
    /\ WF_vars(GenProcessExited)
    /\ WF_vars(\E k \in BOOLEAN : GenProcessCancelled(k))
    /\ WF_vars(GenKillWaited) /\ WF_vars(GenTgCancel) /\ WF_vars(GenTgExited)
    /\ WF_vars(GenTerminateExited) /\ WF_vars(GenTerminateTimeout)
    /\ WF_vars(GenTerminateCancelled)
    /\ WF_vars(ScopeTimeout) /\ WF_vars(Tick)
    /\ WF_vars(ChildObeys)

\* the sessions whose end is followed: the child writes one message
FairStreams == {<<"{", "}", NL>>}

InitFair == InitWith(FairStreams)

\* every step of Next, with a caller whose messages are all alike
NextFair ==
    \/ OpenInvalid \/ OpenSpawnFails \/ Open
    \/ \E n \in 1..Len(stream) : ReaderRead(n)
    \/ ReaderEnd \/ ReaderClosed \/ ReaderFails \/ ReaderSendFails
    \/ ReaderCancelled
    \/ WriterWrite \/ WriterWriteFails \/ WriterEnd \/ WriterCancelled
    \/ CallerSend(MsgPing)
    \/ CallerReceive \/ CallerCloseInbound \/ CallerCloseOutbound
    \/ \E how \in {"none", "error", "cancelled"}, sc \in BOOLEAN : CallerClose(how, sc)
    \/ ChildObeys \/ ChildExits
    \/ GenProcessExited \/ (\E k \in BOOLEAN : GenProcessCancelled(k))
    \/ GenKillWaited \/ GenTgCancel \/ GenTgExited
    \/ GenTerminateExited \/ GenTerminateTimeout \/ GenTerminateCancelled
    \/ GenTerminateRequestFails \/ GenTerminateWaitFails \/ GenTerminateKillFails
    \/ ScopeTimeout
    \/ CloseAgain
    \/ Tick

SpecFair == InitFair /\ [][NextFair]_vars /\ Fairness

(***************************************************************************)
(* The reader's side of a session, for every output of at most MaxLines    *)
(* lines and every way of cutting it into chunks: the session runs, or the *)
(* caller's code raises and the task group is cancelled.                   *)
(***************************************************************************)
InitReader ==
    /\ InitWith(AllStreams)
    /\ server = [command |-> <<"s", "r", "v">>, args |-> "list"]
    /\ ~ignores_term /\ ~ignores_eof

NextReader ==
    \/ Open
    \/ \E n \in 1..Len(stream) : ReaderRead(n)
    \/ ReaderEnd \/ ReaderClosed \/ ReaderFails \/ ReaderCancelled
    \/ CallerReceive \/ CallerReceiveEnd
    \/ ChildExits
    \/ CallerClose("error", FALSE) \/ ChildObeys \/ GenProcessExited

SpecReader == InitReader /\ [][NextReader]_vars

(***************************************************************************)
(* The same with a reader that is run when it can go on and a caller that  *)
(* keeps calling receive as long as it is in the session.                  *)
(***************************************************************************)
\* the conditions under which the steps of the reader and of the caller can
\* be taken, written out from their guards
ReaderCanRead == rd_pc = "read" /\ ~tg_cancelled /\ consumed < Len(stream)

ReaderCanEnd ==
    /\ rd_pc = "read" /\ ~tg_cancelled
    /\ (child = "exited" /\ consumed = Len(stream)) \/ stdout_closed

CallerCanReceive ==
    /\ sess = "Running" /\ ~in_rx_closed
    /\ inbound # <<>> \/ (rd_pc = "send" /\ ~tg_cancelled)

\* weak fairness of the reader's and the caller's steps, for the first three
\* with the enabling condition spelled out
ReaderFairness ==
    /\ ([]<>~ReaderCanRead) \/ ([]<><<\E n \in 1..Len(stream) : ReaderRead(n)>>_vars)
    /\ ([]<>~ReaderCanEnd) \/ ([]<><<ReaderEnd>>_vars)
    /\ ([]<>~CallerCanReceive) \/ ([]<><<CallerReceive>>_vars)
    /\ WF_vars(CallerReceiveEnd)

SpecReaderFair == InitReader /\ [][NextReader]_vars /\ ReaderFairness

(***************************************************************************)
(* The codec end to end: a child that copies its stdin to its stdout, and  *)
(* a caller that sends messages and receives what comes back.              *)
(***************************************************************************)
CodecMsgs ==
    {[jsonrpc |-> Str(Version20), id |-> Num(<<"1">>), method |-> None],
     [jsonrpc |-> Str(Version20), id |-> Str(<<"1">>), method |-> Str(<<"m">>)],
     [jsonrpc |-> Str(Version20), id |-> None, method |-> Str(<<"m">>)],
     [jsonrpc |-> Str(<<"1">>), id |-> None, method |-> None]}

\* the child writes to its stdout all it has read from its stdin
ChildEcho ==
    /\ child = "running"
    /\ stream # stdin_data
    /\ stream' = stdin_data
    /\ UNCHANGED <<genVars, chanVars, callerVars, readerVars, writerVars,
                   childVars, server, ignores_term, ignores_eof, again,
                   moreVars, scopeVars, timeVars>>

InitCodec ==
    /\ InitWith({<<>>})
    /\ server = [command |-> <<"s", "r", "v">>, args |-> "list"]
    /\ ~ignores_term /\ ~ignores_eof

NextCodec ==
    \/ Open
    \/ \E msg \in CodecMsgs : CallerSend(msg)
    \/ WriterWrite
    \/ ChildEcho
    \/ \E n \in 1..Len(stream) : ReaderRead(n)
    \/ CallerReceive

SpecCodec == InitCodec /\ [][NextCodec]_vars

(***************************************************************************)
(* run(): one session is opened and initialized per server name, then the  *)
(* command or the interactive mode runs, then the finally leaves every     *)
(* context manager of context_managers.  A session is Running or Closed    *)
(* here; what goes on inside it is the subject of the specifications       *)
(* above.                                                                  *)
(***************************************************************************)
\* how the iteration for one server goes: all well, load_config or
\* cm.__aenter__() raises, send_initialize returns nothing, or it raises
Outcomes == {"ok", "open_raises", "init_failed", "init_raises"}

RECURSIVE PlansOf(_)
PlansOf(n) ==
    IF n = 0 THEN {<<>>}
    ELSE {Append(p, o) : p \in PlansOf(n - 1), o \in Outcomes}

Plans == UNION {PlansOf(n) : n \in 0..MaxServers}

\* the parameters of the context manager's __aexit__
AexitParams == <<"typ", "value", "traceback">>

\* the arguments of the call cm.__aexit__()
AexitArgs == <<>>

sessVars == <<genVars, chanVars, callerVars, readerVars, writerVars, childVars,
              fixedVars, again, end_seen, term_error, scopeVars, timeVars>>

\* run(config_path, server_names, command) is called
RunStart(plan) ==
    /\ run_pc = "none"
    /\ run_pc' = "loop"
    /\ run_plan' = plan
    /\ UNCHANGED <<sessVars, run_sessions, run_k, run_result>>

\* the next server: its session is opened and appended to context_managers
RunOpen ==
    /\ run_pc = "loop"
    /\ Len(run_sessions) < Len(run_plan)
    /\ run_plan[Len(run_sessions) + 1] # "open_raises"
    /\ run_sessions' = Append(run_sessions, "Running")
    /\ run_pc' = "init"
    /\ UNCHANGED <<sessVars, run_plan, run_k, run_result>>

\* the next server: load_config or cm.__aenter__() raises, out of run()
RunOpenRaises ==
    /\ run_pc = "loop"
    /\ Len(run_sessions) < Len(run_plan)
    /\ run_plan[Len(run_sessions) + 1] = "open_raises"
    /\ run_pc' = "end"
    /\ run_result' = "raised"
    /\ UNCHANGED <<sessVars, run_plan, run_sessions, run_k>>

\* send_initialize returns a result: on to the next server
RunInitialized ==
    /\ run_pc = "init"
    /\ run_plan[Len(run_sessions)] = "ok"
    /\ run_pc' = "loop"
    /\ UNCHANGED <<sessVars, run_plan, run_sessions, run_k, run_result>>

\* send_initialize returns nothing: run() prints and returns
RunInitFailed ==
    /\ run_pc = "init"
    /\ run_plan[Len(run_sessions)] = "init_failed"
    /\ run_pc' = "end"
    /\ run_result' = "returned"
    /\ UNCHANGED <<sessVars, run_plan, run_sessions, run_k>>

\* send_initialize raises, out of run()
RunInitRaises ==
    /\ run_pc = "init"
    /\ run_plan[Len(run_sessions)] = "init_raises"
    /\ run_pc' = "end"
    /\ run_result' = "raised"
    /\ UNCHANGED <<sessVars, run_plan, run_sessions, run_k>>

\* every server is initialized: handle_command or interactive_mode runs
\* and returns or raises, and the finally begins
RunBody(raises) ==
    /\ run_pc = "loop"
    /\ Len(run_sessions) = Len(run_plan)
    /\ run_pc' = "cleanup"
    /\ run_k' = 1
    /\ run_result' = IF raises THEN "raised" ELSE "returned"
    /\ UNCHANGED <<sessVars, run_plan, run_sessions>>

\* the finally: the call cm.__aexit__() for the next context manager, which
\* raises TypeError unless its arguments are those __aexit__ takes; after
\* the last one the finally is done
RunCleanup ==
    /\ run_pc = "cleanup"
    /\ IF run_k > Len(run_sessions)
         THEN /\ run_pc' = "end"
              /\ UNCHANGED <<run_sessions, run_k, run_result>>
         ELSE IF Len(AexitArgs) # Len(AexitParams)
           THEN /\ run_pc' = "end"
                /\ run_result' = "raised"
                /\ UNCHANGED <<run_sessions, run_k>>
           ELSE /\ run_sessions' = [run_sessions EXCEPT ![run_k] = "Closed"]
                /\ run_k' = run_k + 1
                /\ UNCHANGED <<run_pc, run_result>>
    /\ UNCHANGED <<sessVars, run_plan>>

InitRun ==
    /\ InitWith({<<>>})
    /\ server = [command |-> <<"s", "r", "v">>, args |-> "list"]
    /\ ~ignores_term /\ ~ignores_eof

NextRun ==
    \/ \E plan \in Plans : RunStart(plan)
    \/ RunOpen \/ RunOpenRaises
    \/ RunInitialized \/ RunInitFailed \/ RunInitRaises
    \/ \E raises \in BOOLEAN : RunBody(raises)
    \/ RunCleanup

SpecRun == InitRun /\ [][NextRun]_vars

(***************************************************************************)
(* What the claims speak of.                                               *)
(***************************************************************************)
\* the complete lines of a text: the pieces before its last newline
CompleteLines(s) == AllButLast(Split(s))

\* the message stdout_reader is waiting to send, if any
InFlight == IF rd_pc = "send" THEN <<Decode(Head(lines))>> ELSE <<>>

\* the lines of the current chunk stdout_reader has not come to yet
Pending == IF rd_pc = "send" THEN Tail(lines) ELSE lines

\* the messages handed to the inbound stream
Forwarded == delivered \o inbound

\* stdout_reader runs or has ended at the end of the stream
ReaderAlive == rd_pc \in {"read", "send", "done"}

RECURSIVE SelectNonBlank(_)
SelectNonBlank(ls) ==
    IF ls = <<>> THEN <<>>
    ELSE (IF NonBlank(Head(ls)) THEN <<Head(ls)>> ELSE <<>>)
           \o SelectNonBlank(Tail(ls))

(***************************************************************************)
(* C1. Chunk-boundary invariance.  For an output made of complete lines,   *)
(* however it is cut into chunks: once stdout_reader has read a part of    *)
(* it, the messages it has forwarded (the one it is sending included),     *)
(* followed by those of the lines it has still to go through, are the      *)
(* messages of the complete lines of that part, each decoded on its own;   *)
(* so when all of it is read and the reader has ended, the messages        *)
(* received are those of the lines, one by one.  (An end of the stream     *)
(* forced on the reader before it has read everything is left aside.)      *)
(***************************************************************************)
C1_ChunkInvariance ==
    (/\ ReaderAlive /\ ~in_rx_closed
     /\ Last(Split(stream)) = <<>>
     /\ rd_last => consumed = Len(stream))
    => /\ Forwarded \o InFlight \o DecodeAll(Pending)
            = DecodeAll(CompleteLines(SubSeq(stream, 1, consumed)))
       /\ (rd_pc = "done" /\ consumed = Len(stream))
            => delivered = DecodeAll(CompleteLines(stream))

\* a message was delivered and a later line is cut by a chunk boundary
C1_Witness ==
    /\ Last(Split(stream)) = <<>>
    /\ rd_pc = "read" /\ ~in_rx_closed /\ ~rd_last
    /\ Len(delivered) = 1
    /\ NonBlank(buffer) /\ ~Decodes(buffer)
    /\ Len(DecodeAll(CompleteLines(stream))) = 2

(***************************************************************************)
(* C2. Malformed-line resilience.  A line that is not JSON or not a        *)
(* message does not stop stdout_reader: when it has read the whole output  *)
(* and ended at the end of the stream, it has processed every non-blank    *)
(* line of the output, and the caller has received the messages of all     *)
(* the valid lines, in order.                                              *)
(***************************************************************************)
C2_MalformedLineResilience ==
    (rd_pc = "done" /\ rd_last /\ consumed = Len(stream) /\ ~in_rx_closed)
    => /\ processed = SelectNonBlank(Split(stream))
       /\ delivered = DecodeAll(Split(stream))

\* a malformed line between two valid ones, and both messages received
C2_Witness ==
    /\ rd_pc = "done" /\ rd_last /\ consumed = Len(stream) /\ ~in_rx_closed
    /\ stream = Sandwich
    /\ delivered = <<Decode(LineA), Decode(LineB)>>

(***************************************************************************)
(* C3. Inbound ordering.  While the caller keeps read_stream open, the     *)
(* messages it has received are, in order, the messages of the lines       *)
(* process_json_line was called with, but for the last one while its send  *)
(* is waiting or was cancelled.                                            *)
(***************************************************************************)
C3_InboundOrdering ==
    ~in_rx_closed
    => LET decoded == DecodeAll(processed) IN
       /\ IsPrefix(Forwarded, decoded)
       /\ Len(decoded) <= Len(Forwarded) + 1
       /\ rd_pc \in {"read", "done"} => Forwarded = decoded
       /\ rd_pc = "send" => Forwarded \o InFlight = decoded

\* two different messages received in the order of their lines
C3_Witness ==
    /\ ~in_rx_closed
    /\ Len(delivered) = 2
    /\ delivered[1] # delivered[2]
    /\ delivered = DecodeAll(processed)

(***************************************************************************)
(* C4. Outbound ordering.  What stdin_writer has written to the child's    *)
(* stdin is a sequence of newline-terminated lines, at most as many as     *)
(* the caller has sent messages: line i is the JSON text of the i-th       *)
(* message sent and nothing else.                                          *)
(***************************************************************************)
C4_OutboundOrdering ==
    LET written == Split(stdin_data) IN
    /\ Last(written) = <<>>
    /\ Len(written) - 1 <= Len(sent)
    /\ \A i \in 1..(Len(written) - 1) : written[i] = model_dump_json(sent[i])

\* two different messages sent and both written, each on its line
C4_Witness ==
    /\ Len(sent) = 2
    /\ sent[1] # sent[2]
    /\ Len(Split(stdin_data)) = 3
    /\ wr_pc = "recv"

(***************************************************************************)
(* C5. Backpressure.  The inbound stream buffers nothing: a decoded         *)
(* message the caller has not received keeps stdout_reader waiting in its  *)
(* send; stdin_writer does not wait for it: while stdout_reader waits, a   *)
(* message taken from the outbound stream can be written; and as long as   *)
(* stdout_reader lives, the messages received and the one being sent are   *)
(* the messages of the lines processed, each once.                         *)
(***************************************************************************)
C5_Backpressure ==
    /\ inbound = <<>>
    /\ (rd_pc = "send" /\ wr_pc = "write" /\ ~tg_cancelled /\ ~stdin_closed
          /\ child = "running") => ENABLED WriterWrite
    /\ (ReaderAlive /\ ~in_rx_closed)
         => delivered \o InFlight = DecodeAll(processed)

\* the caller has received nothing, stdout_reader waits in its send, and
\* two messages were sent and written meanwhile
C5_Witness ==
    /\ sess = "Running"
    /\ rd_pc = "send" /\ delivered = <<>>
    /\ Len(sent) = 2 /\ wr_pc = "recv"
    /\ stdin_data = EncodeLine(sent[1]) \o EncodeLine(sent[2])

(***************************************************************************)
(* C6. Termination bound.  With a child that does not exit unless killed   *)
(* (it ignores the termination request and the end of its stdin), leaving  *)
(* the session takes at most GracefulTimeout + CloseGrace, and when it is  *)
(* over a kill was issued, unless the child had exited by itself before.   *)
(***************************************************************************)
C6_TerminationBound ==
    (ignores_term /\ ignores_eof)
    => /\ sess = "Closing" => now <= GracefulTimeout + CloseGrace
       /\ (sess = "Closed" /\ open_error = "none")
            => (kill_sent > 0 \/ child = "exited")

(***************************************************************************)
(* C7. Closing cancels both loops.  With a child that exits when its       *)
(* stdin ends, a session left without a move_on_after scope around it is   *)
(* never stuck: until it is Closed, a step of the session or of the child  *)
(* is possible; and once Closed both loops have ended and the stream ends  *)
(* they own are closed.                                                    *)
(***************************************************************************)
ChildWillExit ==
    /\ child = "running"
    /\ \/ Killed
       \/ TermRequested /\ ~ignores_term
       \/ stdin_closed /\ ~ignores_eof

C7_CloseCancelsLoops ==
    /\ (sess = "Closing" /\ ~scoped /\ ~ignores_eof) => (Ready \/ ChildWillExit)
    /\ (sess = "Closed" /\ open_error = "none")
         => /\ rd_pc \in Finished /\ wr_pc \in Finished
            /\ in_tx_closed /\ out_rx_closed

C9_TerminationAttempted ==
    (sess = "Closed" /\ open_error = "none")
    => (child = "exited" \/ term_sent > 0 \/ kill_sent > 0)

\* stdout_reader raised, the error reached the caller, and the child, still
\* running, was sent the termination request
C9_Witness ==
    /\ sess = "Closed" /\ result = "raised"
    /\ rd_pc = "failed"
    /\ child = "running"
    /\ term_sent > 0

(***************************************************************************)
(* C10. Invalid parameters.  With an empty command, or args that is no     *)
(* list and no tuple, entering the session raises ValueError: no stream    *)
(* is created, no child is spawned and no loop is started.                 *)
(***************************************************************************)
C10_InvalidParameters ==
    (server.command = <<>> \/ server.args \notin {"list", "tuple"})
    => /\ sess \in {"Created", "Closed"}
       /\ sess = "Closed" => open_error = "ValueError"
       /\ child = "none" /\ ~streams
       /\ rd_pc = "none" /\ wr_pc = "none"

\* entering with an empty command has failed
C10_Witness ==
    /\ server.command = <<>>
    /\ sess = "Closed" /\ open_error = "ValueError"

(***************************************************************************)
(* C11. Cleanup when the spawn fails.  When entering the session fails     *)
(* after the two streams were created (anyio.open_process raises), the     *)
(* error reaches the caller only with both streams closed, all four ends.  *)
(***************************************************************************)
C11_CleanupOnSpawnFailure ==
    (sess = "Closed" /\ open_error = "SpawnError")
    => (streams => /\ in_tx_closed /\ in_rx_closed
                   /\ out_tx_closed /\ out_rx_closed)

(***************************************************************************)
(* C12. A loop-fatal error closes the session.  Once stdout_reader or      *)
(* stdin_writer has raised (a read error that is not the end of the        *)
(* stream, a failed write to the child's stdin), the session reaches       *)
(* Closed; and when it is Closed both loops have ended, the one without    *)
(* an error too, and the child has exited or was sent a termination        *)
(* request or a kill.                                                      *)
(***************************************************************************)
LoopFailed == "failed" \in {rd_pc, wr_pc}

C12_LoopErrorClosesSession ==
    /\ []((sess = "Closed" /\ LoopFailed)
            => /\ rd_pc \in Finished /\ wr_pc \in Finished
               /\ child = "exited" \/ term_sent > 0 \/ kill_sent > 0)
    /\ (LoopFailed ~> sess = "Closed")

\* the write to the child's stdin failed, stdout_reader was cancelled while
\* it was reading, and the session is Closed with the error raised
C12_Witness ==
    /\ sess = "Closed" /\ result = "raised"
    /\ wr_pc = "failed" /\ rd_pc = "cancelled"

(***************************************************************************)
(* C13. Codec round trip.  With a child that echoes its input, what        *)
(* stdout_reader decodes from the lines stdin_writer wrote is, message by  *)
(* message, equal to what the caller sent in every field the message has;  *)
(* and when all that was written has come back and was read, every         *)
(* message sent was decoded.                                               *)
(***************************************************************************)
PopulatedEqual(a, m) ==
    /\ m.jsonrpc.t # "none" => a.jsonrpc = m.jsonrpc
    /\ m.id.t # "none" => a.id = m.id
    /\ m.method.t # "none" => a.method = m.method

C13_CodecRoundTrip ==
    LET got == delivered \o InFlight IN
    /\ Len(got) <= Len(sent)
    /\ \A i \in 1..Len(got) : PopulatedEqual(got[i], sent[i])
    /\ (rd_pc = "read" /\ wr_pc = "recv" /\ stream = stdin_data
          /\ consumed = Len(stream)) => Len(got) = Len(sent)

\* two different messages, one with a number and one with a string as id,
\* were sent, echoed and received as they were sent
C13_Witness ==
    /\ Len(sent) = 2 /\ delivered = sent
    /\ sent[1].id = Num(<<"1">>) /\ sent[2].id = Str(<<"1">>)

(***************************************************************************)
(* C14. The reader stops when the inbound stream is closed.  Once the      *)
(* caller has closed read_stream and a decoded message could not be        *)
(* forwarded, stdout_reader has ended, and that message's line is the      *)
(* last one process_json_line was called with: all the messages decoded    *)
(* before it were forwarded and nothing was processed after it.            *)
(***************************************************************************)
C14_ReaderStopsOnClosedInbound ==
    (in_rx_closed /\ rd_pc # "send"
       /\ Len(DecodeAll(processed)) > Len(Forwarded))
    => /\ rd_pc \in Finished
       /\ DecodeAll(AllButLast(processed)) = Forwarded

(***************************************************************************)
(* C15. The partial-line buffer.  Whatever the output and however it is    *)
(* cut into chunks, stdout_reader's buffer never holds a newline: after    *)
(* each chunk it is what follows the last newline read so far.             *)
(***************************************************************************)
C15_BufferHasNoNewline ==
    /\ \A i \in 1..Len(buffer) : buffer[i] # NL
    /\ rd_pc \in {"read", "send"}
         => buffer = Last(Split(SubSeq(stream, 1, consumed)))

\* after a chunk that held a whole line and the start of the next one, the
\* buffer holds that start
C15_Witness ==
    /\ rd_pc = "read"
    /\ Len(processed) = 1
    /\ buffer # <<>>
    /\ \E i \in 1..consumed : stream[i] = NL

(***************************************************************************)
(* C16. Clean end of the inbound stream.  Whenever stdout_reader has       *)
(* ended, read_stream_writer is closed; the caller finds the end of the    *)
(* stream only after it has received every message forwarded, which at     *)
(* the end of a fully read output are the messages of all its lines; and   *)
(* once the child has exited, a caller that stays in the session and       *)
(* keeps receiving does find the end of the stream.                        *)
(***************************************************************************)
C16_CleanEndOfInbound ==
    /\ [](rd_pc \in Finished => in_tx_closed)
    /\ [](end_seen
            => /\ rd_pc \in Finished /\ inbound = <<>>
               /\ (rd_pc = "done" /\ rd_last /\ consumed = Len(stream))
                    => delivered = DecodeAll(Split(stream)))
    /\ (child = "exited" ~> (end_seen \/ sess # "Running"))

\* the child has exited, both messages of its output were received and the
\* next receive found the end of the stream
C16_Witness ==
    /\ sess = "Running" /\ child = "exited"
    /\ rd_pc = "done" /\ rd_last
    /\ Len(delivered) = 2
    /\ end_seen


(***************************************************************************)
(* C17. Graceful before forced.  terminate_process starts its bounded wait *)
(* only with a termination request sent and GracefulTimeout units ahead;   *)
(* it kills only when that wait has run its full time and the child is     *)
(* still running; and reached with a child that has already exited it      *)
(* sends neither a termination request nor a kill and is done.             *)
(***************************************************************************)
C17_GracefulBeforeForced ==
    [][/\ (gen_pc # "terminate" /\ gen_pc' = "terminate")
            => /\ child = "running"
               /\ term_sent' = term_sent + 1 /\ kill_sent' = kill_sent
               /\ term_deadline' = now + GracefulTimeout
       /\ (gen_pc = "terminate" /\ kill_sent' # kill_sent)
            => /\ term_sent > 0
               /\ now >= term_deadline
               /\ child = "running"
               /\ kill_sent' = kill_sent + 1
       /\ (gen_pc = "tg_exit" /\ gen_pc' # "tg_exit" /\ child = "exited")
            => /\ term_sent' = term_sent /\ kill_sent' = kill_sent
               /\ gen_pc' = "end"]_vars

\* the child ignored the termination request, the five units passed and
\* the kill was sent
C17_Witness ==
    /\ sess = "Closed" /\ open_error = "none"
    /\ ignores_term
    /\ term_sent = 1 /\ kill_sent = 1
    /\ now >= term_deadline /\ term_deadline >= GracefulTimeout


(***************************************************************************)
(* C18. Termination is best-effort.  When process.terminate(), the wait    *)
(* or process.kill() raises in terminate_process, the error is recorded    *)
(* and terminate_process ends: the session is Closed and what reaches the  *)
(* caller is what was passing through the finally before, never the error  *)
(* of the termination.                                                     *)
(***************************************************************************)
C18_TerminationBestEffort ==
    [][term_error' # term_error
         => LET e == IF gen_pc = "tg_exit" THEN GroupError ELSE exc IN
            /\ term_error = "none"
            /\ term_error' \in {"terminate", "wait", "kill"}
            /\ sess' = "Closed" /\ gen_pc' = "end"
            /\ exc' = e /\ result' = Outcome(e)]_vars

\* the session was left inside a scope whose time ran out, the termination
\* request raised, and the close ended as cancelled
C18_Witness ==
    /\ sess = "Closed"
    /\ term_error = "terminate"
    /\ term_sent = 1
    /\ child = "running"
    /\ result = "cancelled"


(***************************************************************************)
(* C19. The child is reaped when the session closes.  Whenever a session   *)
(* whose spawn succeeded is Closed, with no call of terminate_process      *)
(* having raised, the child has exited and a wait for it has returned.     *)
(***************************************************************************)
C19_ChildReapedAtClose ==
    (sess = "Closed" /\ open_error = "none" /\ term_error = "none")
      => (child = "exited" /\ reaped)


(***************************************************************************)
(* C20. run() closes every session it opened.  When run() has returned or  *)
(* raised, every session in context_managers is Closed.                    *)
(***************************************************************************)
C20_RunClosesEverySession ==
    run_pc = "end"
      => \A i \in 1..Len(run_sessions) : run_sessions[i] = "Closed"


(***************************************************************************)
(* C21. The cleanup of run() comes to every session.  When run() has       *)
(* ended after its finally began, the call that leaves the session was     *)
(* made for every context manager of context_managers: the cleanup came    *)
(* at least to the last of them.                                           *)
(***************************************************************************)
C21_CleanupAttemptsEverySession ==
    (run_pc = "end" /\ run_k > 0) => run_k >= Len(run_sessions)

=============================================================================
